---- MODULE Spec2Model ----
(***************************************************************************)
(* Order lifecycle of the vendor web server: one order record in the       *)
(* order store, the vendor-facing transition handlers of the orders        *)
(* controller (accept, reject, start, complete, cancel), the older order   *)
(* controller (accept, reject through updateOrderStatus / save), order     *)
(* creation with dispatch, and the external partner's vendor-update.       *)
(* Every handler is split at its awaits on the order store: a read         *)
(* (findById / findOne) and the later write are separate steps, so that    *)
(* requests interleave exactly where the Node.js event loop lets them.     *)
(***************************************************************************)
EXTENDS Integers, FiniteSets, Sequences, TLC

\* ------------------------------------------------------------------ bounds
NumVendors == 2
MaxTime == 2
MaxCalls == 3

\* the null reference / unset timestamp
Null == 0

Vendors == 1..NumVendors
Times == 1..MaxTime
OrderIds == {"o1", "missing"}

Statuses ==
  {"pending", "assigned", "accepted", "rejected", "in_progress",
   "payment_requested", "payment_confirmed", "arrival_confirmed",
   "completed", "cancelled"}

VARIABLES
  order,     \* the order document "o1" in the store; status "none" = not created
  now,       \* the value new Date() returns
  req,       \* req[v]: where vendor v's in-flight request stands
  resp,      \* resp[v]: the last response vendor v received
  calls,     \* number of requests issued so far
  acceptOK,  \* vendors that received 200 from an acceptOrder handler
  order0,    \* the order as it was in the initial state
  creator,   \* the createOrder call: its position and the vendor it carries
  partner,   \* the vendor-update request: its position and what it carries
  dispatch,  \* the assignVendorToOrder call: what it queried, found and returned
  hook,      \* the vendor-update request after its write: webhook and response
  tail,      \* tail[v]: vendor v's request after its write: push and response
  delivery,  \* one notifyCustomerOrderUpdate call: its loop and what it returned
  push,      \* one sendPushToVendor call and the vendor's fcmTokens it works on
  sent,      \* HTTP webhooks and vendor pushes the ordersController handlers made
  vendorDb,  \* vendorDb[id]: number of Vendor documents with vendorId = id
  upsert,    \* the vendor-update request before its order part
  preSignup, \* the PreSignupFcmToken collection and the last POST /fcm-token
  otp,       \* the otpStore map, the last sendOtp per mobile and the last call
  session,   \* session[v]: req.user of the requests made through connection v
  updates    \* updates[r]: vendor-update request r of several in flight

vars == <<order, now, req, resp, calls, acceptOK, order0, creator, partner,
          dispatch, hook, tail, delivery, push, sent, vendorDb, upsert, preSignup,
          otp, session, updates>>

\* the variables of the order store and of the handlers working on it
orderVars == <<order, now, req, resp, calls, acceptOK, order0, creator, partner,
               dispatch, hook, tail>>

NoOrder ==
  [status |-> "none", vendorId |-> Null, assignedAt |-> Null, acceptedAt |-> Null,
   completedAt |-> Null, cancelledAt |-> Null, cancellationReason |-> FALSE,
   cancelledBy |-> "none", rejectionReason |-> FALSE]

\* Order.create(orderData): schema defaults, vendorId as passed by the caller
NewOrder(vendorId) ==
  [NoOrder EXCEPT !.status = "pending", !.vendorId = vendorId]

Idle == [pc |-> "idle", dirty |-> FALSE]
IdlePartner ==
  [pc |-> "idle", vendorId |-> Null, newStatus |-> "none", previousStatus |-> "none"]
NoResp == [op |-> "none", code |-> 0, kind |-> "none"]

Exists(oid) == oid = "o1" /\ order.status # "none"

\* a handler ends: res.status(code).json(...)
Reply(v, op, code, kind) ==
  /\ req' = [req EXCEPT ![v] = Idle]
  /\ resp' = [resp EXCEPT ![v] = [op |-> op, code |-> code, kind |-> kind]]

\* a handler starts: vendor v has no request in flight
Begin(v) ==
  /\ req[v].pc = "idle"
  /\ calls < MaxCalls
  /\ calls' = calls + 1

\* the clock advances between any two steps, or not (two writes within one
\* millisecond carry the same Date)
Tick ==
  /\ UNCHANGED <<dispatch, hook, tail>>
  /\ UNCHANGED <<delivery, push, sent, vendorDb, upsert, preSignup, otp, session, updates>>
  /\ now < MaxTime
  /\ now' = now + 1
  /\ UNCHANGED <<order, req, resp, calls, acceptOK, order0, creator, partner>>

\* ------------------------------------------------- ordersService (atomic)
\* a variant that filters by _id alone
TransitionMatchesIdOnly(oid, status, vendorId) ==
  Exists(oid)

\* Order.findOneAndUpdate({_id, ...condition}, {$set: update}, {new: true}):
\* evaluated and applied as one step; this is the filter (vendorId = Null:
\* the condition names no vendor), the caller applies the $set.

TransitionMatches(oid, status, vendorId) ==
  /\ Exists(oid)
  /\ order.status = status
  /\ (vendorId # Null => order.vendorId = vendorId)

\* ------------------------------------------------------ ordersController
\* notificationService.notifyCustomerOrderStatusUpdate: it logs and returns
\* success; it posts nothing and pushes nothing
NotifyCustomerOrderStatusUpdate == [success |-> TRUE, posts |-> 0, pushes |-> 0]

\* what a handler does after its committed transition, for an order with a
\* customerId: the customer notification above and nothing for the vendor
AfterTransition(s) ==
  [webhooks |-> s.webhooks + NotifyCustomerOrderStatusUpdate.posts,
   pushes |-> s.pushes + NotifyCustomerOrderStatusUpdate.pushes]

Done(code, kind) == [pc |-> "idle", code |-> code, kind |-> kind]
Continue(pc) == [pc |-> pc, code |-> 0, kind |-> "none"]

\* a variant that lacks the 'accepted by another vendor' branch
AcceptCheckNoConflict(v, oid) ==
  IF ~Exists(oid) THEN Done(404, "not_found")
  ELSE IF order.status = "accepted" THEN
    IF order.vendorId # Null /\ order.vendorId = v /\ order.acceptedAt # Null
      THEN Done(200, "ok")
      ELSE Done(400, "invalid_state")
  ELSE IF order.status = "assigned" THEN
    IF order.vendorId = Null \/ order.vendorId # v
      THEN Done(403, "forbidden")
      ELSE Continue("accept_assigned")
  ELSE IF order.status = "pending" THEN Continue("accept_pending")
  ELSE Done(400, "invalid_state")

\* a variant that replays success for any order the caller once accepted
AcceptCheckLenient(v, oid) ==
  IF ~Exists(oid) THEN Done(404, "not_found")
  ELSE IF order.vendorId # Null /\ order.vendorId = v /\ order.acceptedAt # Null
    THEN Done(200, "ok")
  ELSE IF order.status = "accepted" THEN
    IF order.vendorId # Null THEN Done(409, "conflict") ELSE Done(400, "invalid_state")
  ELSE IF order.status = "assigned" THEN
    IF order.vendorId = Null \/ order.vendorId # v
      THEN Done(403, "forbidden")
      ELSE Continue("accept_assigned")
  ELSE IF order.status = "pending" THEN Continue("accept_pending")
  ELSE Done(400, "invalid_state")

\* acceptOrder, the checks on the document findById returned: the response
\* it ends with, or the update it goes on to
AcceptCheck(v, oid) ==
  IF ~Exists(oid) THEN Done(404, "not_found")
  ELSE IF order.status = "accepted" THEN
    IF order.vendorId # Null /\ order.vendorId = v THEN
      IF order.acceptedAt # Null THEN Done(200, "ok") ELSE Done(400, "invalid_state")
    ELSE IF order.vendorId # Null THEN Done(409, "conflict")
    ELSE Done(400, "invalid_state")
  ELSE IF order.status = "assigned" THEN
    IF order.vendorId = Null \/ order.vendorId # v
      THEN Done(403, "forbidden")
      ELSE Continue("accept_assigned")
  ELSE IF order.status = "pending" THEN Continue("accept_pending")
  ELSE Done(400, "invalid_state")

\* acceptOrder, first await: Order.findById, then the checks
AcceptFind(v, oid) ==
  /\ UNCHANGED <<dispatch, hook, tail>>
  /\ UNCHANGED <<delivery, push, sent, vendorDb, upsert, preSignup, otp, session, updates>>
  /\ Begin(v)
  /\ UNCHANGED <<order, now, order0, creator, partner>>
  /\ LET d == AcceptCheck(session[v], oid)
     IN IF d.pc = "idle" THEN
          /\ Reply(v, "accept", d.code, d.kind)
          /\ acceptOK' = IF d.code = 200 THEN acceptOK \cup {session[v]} ELSE acceptOK
        ELSE
          /\ req' = [req EXCEPT ![v] = [pc |-> d.pc, dirty |-> FALSE]]
          /\ UNCHANGED <<resp, acceptOK>>

\* acceptOrder, 'assigned' branch: the conditional update
AcceptAssignedUpdate(v) ==
  /\ UNCHANGED <<dispatch, hook, tail>>
  /\ UNCHANGED <<delivery, push, vendorDb, upsert, preSignup, otp, session, updates>>
  /\ req[v].pc = "accept_assigned"
  /\ UNCHANGED <<now, calls, order0, creator, partner>>
  /\ IF TransitionMatches("o1", "assigned", session[v]) THEN
       /\ order' = [order EXCEPT !.status = "accepted", !.acceptedAt = now]
       /\ Reply(v, "accept", 200, "ok")
       /\ sent' = AfterTransition(sent)
       /\ acceptOK' = acceptOK \cup {session[v]}
     ELSE
       /\ Reply(v, "accept", 409, "conflict")
       /\ UNCHANGED sent
       /\ UNCHANGED <<order, acceptOK>>

\* acceptOrder, 'pending' branch: the atomic claim
AcceptPendingClaim(v) ==
  /\ UNCHANGED <<dispatch, hook, tail>>
  /\ UNCHANGED <<delivery, push, vendorDb, upsert, preSignup, otp, session, updates>>
  /\ req[v].pc = "accept_pending"
  /\ UNCHANGED <<now, calls, order0, creator, partner>>
  /\ IF TransitionMatches("o1", "pending", Null) THEN
       /\ order' = [order EXCEPT !.vendorId = session[v], !.status = "accepted",
                                 !.acceptedAt = now, !.assignedAt = now]
       /\ Reply(v, "accept", 200, "ok")
       /\ sent' = AfterTransition(sent)
       /\ acceptOK' = acceptOK \cup {session[v]}
     ELSE
       /\ Reply(v, "accept", 409, "conflict")
       /\ UNCHANGED sent
       /\ UNCHANGED <<order, acceptOK>>

\* rejectOrder, first await: Order.findById and the status check
RejectFind(v, oid) ==
  /\ UNCHANGED <<dispatch, hook, tail>>
  /\ UNCHANGED <<delivery, push, sent, vendorDb, upsert, preSignup, otp, session, updates>>
  /\ Begin(v)
  /\ UNCHANGED <<order, now, acceptOK, order0, creator, partner>>
  /\ IF ~Exists(oid) THEN
       Reply(v, "reject", 404, "not_found")
     ELSE IF order.status # "pending"
             /\ ~(order.status = "assigned" /\ order.vendorId # Null
                  /\ order.vendorId = session[v]) THEN
       Reply(v, "reject", 400,
             IF order.status = "assigned" THEN "forbidden" ELSE "invalid_state")
     ELSE
       /\ req' = [req EXCEPT ![v] =
             [pc |-> IF order.status = "pending" THEN "reject_pending" ELSE "reject_assigned",
              dirty |-> FALSE]]
       /\ UNCHANGED resp

\* rejectOrder, the update: the query carries the status read, not the vendor
RejectUpdate(v) ==
  /\ UNCHANGED <<dispatch, hook, tail>>
  /\ UNCHANGED <<delivery, push, vendorDb, upsert, preSignup, otp, session, updates>>
  /\ req[v].pc \in {"reject_pending", "reject_assigned"}
  /\ UNCHANGED <<now, calls, acceptOK, order0, creator, partner>>
  /\ LET expected == IF req[v].pc = "reject_pending" THEN "pending" ELSE "assigned"
         newStatus == IF req[v].pc = "reject_pending" THEN "rejected" ELSE "cancelled"
     IN IF TransitionMatches("o1", expected, Null) THEN
          /\ order' = [order EXCEPT !.status = newStatus, !.cancelledAt = now,
                                    !.rejectionReason = TRUE, !.cancelledBy = "vendor"]
          /\ Reply(v, "reject", 200, "ok")
          /\ sent' = AfterTransition(sent)
        ELSE
          /\ Reply(v, "reject", 409, "conflict")
          /\ UNCHANGED sent
          /\ UNCHANGED order

\* what a failed start / complete was, by the taxonomy of failures
TransitionFailure(v, oid) ==
  IF ~Exists(oid) THEN "not_found"
  ELSE IF order.vendorId # v THEN "forbidden"
  ELSE "invalid_state"

\* startOrder: one conditional update
StartOrder(v, oid) ==
  /\ UNCHANGED <<dispatch, hook, tail>>
  /\ UNCHANGED <<delivery, push, vendorDb, upsert, preSignup, otp, session, updates>>
  /\ Begin(v)
  /\ UNCHANGED <<now, acceptOK, order0, creator, partner>>
  /\ IF oid = "o1" /\ TransitionMatches(oid, "accepted", v) THEN
       /\ order' = [order EXCEPT !.status = "in_progress",
                                 !.assignedAt = now, !.acceptedAt = now]
       /\ Reply(v, "start", 200, "ok")
       /\ sent' = AfterTransition(sent)
     ELSE
       /\ Reply(v, "start", 400, TransitionFailure(v, oid))
       /\ UNCHANGED sent
       /\ UNCHANGED order

\* completeOrder: one conditional update
CompleteOrder(v, oid) ==
  /\ UNCHANGED <<dispatch, hook, tail>>
  /\ UNCHANGED <<delivery, push, vendorDb, upsert, preSignup, otp, session, updates>>
  /\ Begin(v)
  /\ UNCHANGED <<now, acceptOK, order0, creator, partner>>
  /\ IF oid = "o1" /\ TransitionMatches(oid, "in_progress", v) THEN
       /\ order' = [order EXCEPT !.status = "completed", !.completedAt = now]
       /\ Reply(v, "complete", 200, "ok")
       /\ sent' = AfterTransition(sent)
     ELSE
       /\ Reply(v, "complete", 400, TransitionFailure(v, oid))
       /\ UNCHANGED sent
       /\ UNCHANGED order

\* cancelOrder, first await: Order.findById and the status check
CancelFind(v, oid) ==
  /\ UNCHANGED <<dispatch, hook, tail>>
  /\ UNCHANGED <<delivery, push, sent, vendorDb, upsert, preSignup, otp, session, updates>>
  /\ Begin(v)
  /\ UNCHANGED <<order, now, acceptOK, order0, creator, partner>>
  /\ IF ~Exists(oid) THEN
       Reply(v, "cancel", 404, "not_found")
     ELSE IF order.status \notin {"accepted", "in_progress"} THEN
       Reply(v, "cancel", 400, "invalid_state")
     ELSE
       /\ req' = [req EXCEPT ![v] = [pc |-> "cancel_update", dirty |-> FALSE]]
       /\ UNCHANGED resp

\* cancelOrder, the update: filtered by _id alone
CancelUpdate(v) ==
  /\ UNCHANGED <<dispatch, hook, tail>>
  /\ UNCHANGED <<delivery, push, vendorDb, upsert, preSignup, otp, session, updates>>
  /\ req[v].pc = "cancel_update"
  /\ UNCHANGED <<now, calls, acceptOK, order0, creator, partner>>
  /\ order' = [order EXCEPT !.status = "cancelled", !.cancelledAt = now,
                            !.cancellationReason = TRUE, !.cancelledBy = "vendor"]
  /\ Reply(v, "cancel", 200, "ok")
  /\ sent' = AfterTransition(sent)

\* ------------------------------------------- payment / OTP sub-flow
\* in_progress -> payment_requested -> payment_confirmed -> arrival_confirmed
\* -> completed, each step a conditional update on its immediate predecessor
SubFlowNext(status) ==
  CASE status = "in_progress" -> "payment_requested"
    [] status = "payment_requested" -> "payment_confirmed"
    [] status = "payment_confirmed" -> "arrival_confirmed"
    [] status = "arrival_confirmed" -> "completed"
    [] OTHER -> "none"

SubFlowStep ==
  /\ UNCHANGED <<dispatch, hook, tail>>
  /\ UNCHANGED <<delivery, push, sent, vendorDb, upsert, preSignup, otp, session, updates>>
  /\ Exists("o1")
  /\ SubFlowNext(order.status) # "none"
  /\ order' = [order EXCEPT !.status = SubFlowNext(order.status),
                            !.completedAt = IF SubFlowNext(order.status) = "completed"
                                              THEN now ELSE @]
  /\ UNCHANGED <<now, req, resp, calls, acceptOK, order0, creator, partner>>

\* ------------------------------------------------------- orderController
\* (the controller routes/orders.js mounts: accept and reject of an order
\* assigned to the caller, written through updateOrderStatus / save)
LegacyCheck(v, oid, op) ==
  IF ~Exists(oid) THEN 404
  ELSE IF order.vendorId = Null \/ order.vendorId # v THEN 403
  ELSE IF order.status # "assigned" THEN 400
  ELSE 200

LegacyKind(code) ==
  CASE code = 404 -> "not_found"
    [] code = 403 -> "forbidden"
    [] code = 400 -> "invalid_state"
    [] OTHER -> "ok"

\* acceptOrder, first await: Order.findById and the checks
LegacyAcceptFind(v, oid) ==
  /\ UNCHANGED <<dispatch, hook, tail>>
  /\ UNCHANGED <<delivery, push, sent, vendorDb, upsert, preSignup, otp, session, updates>>
  /\ Begin(v)
  /\ UNCHANGED <<order, now, acceptOK, order0, creator, partner>>
  /\ LET code == LegacyCheck(v, oid, "accept")
     IN IF code # 200
          THEN Reply(v, "legacy_accept", code, LegacyKind(code))
          ELSE /\ req' = [req EXCEPT ![v] = [pc |-> "update_status_find", dirty |-> FALSE]]
               /\ UNCHANGED resp

\* updateOrderStatus(id, 'accepted'), its findById: the document it will save;
\* order.status = status marks the path modified only when the value differs
UpdateOrderStatusFind(v) ==
  /\ UNCHANGED <<dispatch, hook, tail>>
  /\ UNCHANGED <<delivery, push, sent, vendorDb, upsert, preSignup, otp, session, updates>>
  /\ req[v].pc = "update_status_find"
  /\ req' = [req EXCEPT ![v] = [pc |-> "update_status_save",
                                dirty |-> order.status # "accepted"]]
  /\ UNCHANGED <<order, now, resp, calls, acceptOK, order0, creator, partner>>

\* updateOrderStatus, order.save(): $set of the modified paths, filtered by _id
UpdateOrderStatusSave(v) ==
  /\ UNCHANGED <<dispatch, hook>>
  /\ UNCHANGED <<delivery, push, sent, vendorDb, upsert, preSignup, otp, session, updates>>
  /\ req[v].pc = "update_status_save"
  /\ order' = [order EXCEPT !.status = IF req[v].dirty THEN "accepted" ELSE @,
                            !.acceptedAt = now]
  /\ Reply(v, "legacy_accept", 200, "ok")
  /\ acceptOK' = acceptOK \cup {v}
  /\ UNCHANGED <<now, calls, order0, creator, partner>>

\* rejectOrder, first await: Order.findById and the checks
LegacyRejectFind(v, oid) ==
  /\ UNCHANGED <<dispatch, hook, tail>>
  /\ UNCHANGED <<delivery, push, sent, vendorDb, upsert, preSignup, otp, session, updates>>
  /\ Begin(v)
  /\ UNCHANGED <<order, now, acceptOK, order0, creator, partner>>
  /\ LET code == LegacyCheck(v, oid, "reject")
     IN IF code # 200
          THEN Reply(v, "legacy_reject", code, LegacyKind(code))
          ELSE /\ req' = [req EXCEPT ![v] = [pc |-> "legacy_reject_save", dirty |-> TRUE]]
               /\ UNCHANGED resp

\* rejectOrder, order.save() of the document read earlier
LegacyRejectSave(v) ==
  /\ UNCHANGED <<dispatch, hook, tail>>
  /\ UNCHANGED <<delivery, push, sent, vendorDb, upsert, preSignup, otp, session, updates>>
  /\ req[v].pc = "legacy_reject_save"
  /\ order' = [order EXCEPT !.status = "cancelled", !.cancelledAt = now,
                            !.rejectionReason = TRUE]
  /\ Reply(v, "legacy_reject", 200, "ok")
  /\ UNCHANGED <<now, calls, acceptOK, order0, creator, partner>>

\* ---------------------------------------------------------- orderService
\* a vendor id no Vendor document carries
GhostVendor == NumVendors + 1

\* createOrder up to its first write after Order.create: the document is
\* created with the schema's status and the caller's vendorId; then either
\* findNearbyOnlineVendors picks nearbyVendorIds[0] (cand; Null = none nearby)
\* or the explicit vendor is looked up
CreateOrder(dataVendor, autoAssign, cand) ==
  /\ UNCHANGED <<hook, tail>>
  /\ UNCHANGED <<delivery, push, sent, vendorDb, upsert, preSignup, otp, session, updates>>
  /\ creator.pc = "idle"
  /\ order.status = "none"
  /\ order' = NewOrder(dataVendor)
  /\ creator' =
       IF autoAssign /\ dataVendor = Null THEN
         IF cand = Null THEN [pc |-> "done", vendorId |-> Null]
                        ELSE [pc |-> "assign_save", vendorId |-> cand]
       ELSE IF dataVendor # Null THEN
         IF dataVendor = GhostVendor THEN [pc |-> "failed", vendorId |-> dataVendor]
                                     ELSE [pc |-> "explicit_save", vendorId |-> dataVendor]
       ELSE [pc |-> "done", vendorId |-> Null]
  /\ UNCHANGED <<now, req, resp, calls, acceptOK, order0, partner>>

\* assignVendorToOrder, order.save(): vendorId, status and assignedAt were
\* modified on the document createOrder holds
AssignVendorSave ==
  /\ UNCHANGED <<hook, tail>>
  /\ UNCHANGED <<delivery, push, sent, vendorDb, upsert, preSignup, otp, session, updates>>
  /\ creator.pc = "assign_save"
  /\ order' = [order EXCEPT !.vendorId = creator.vendorId, !.status = "assigned",
                            !.assignedAt = now]
  /\ creator' = [creator EXCEPT !.pc = "done"]
  /\ UNCHANGED <<now, req, resp, calls, acceptOK, order0, partner>>

\* createOrder with data.vendorId, order.save(): vendorId is unmodified on
\* the document (it was created with it), status and assignedAt are written
ExplicitVendorSave ==
  /\ UNCHANGED <<dispatch, hook, tail>>
  /\ UNCHANGED <<delivery, push, sent, vendorDb, upsert, preSignup, otp, session, updates>>
  /\ creator.pc = "explicit_save"
  /\ order' = [order EXCEPT !.status = "assigned", !.assignedAt = now]
  /\ creator' = [creator EXCEPT !.pc = "done"]
  /\ UNCHANGED <<now, req, resp, calls, acceptOK, order0, partner>>

\* ------------------------------------------------ POST /vendor-update
ExternalStatuses == {"accepted", "rejected", "enroute", "completed", "cancelled"}

MapExternalStatusVerbatim(s) == s

MapExternalStatus(s) ==
  CASE s = "accepted" -> "assigned"
    [] s = "enroute" -> "in_progress"
    [] s = "completed" -> "completed"
    [] s = "cancelled" -> "cancelled"
    [] s = "rejected" -> "pending"
    [] OTHER -> s

\* vendor-update with assignedOrderId: Order.findOne, previousStatus and the
\* status mapping (ext = "none": the payload carries no status)
VendorUpdateFind(pv, ext, oid) ==
  /\ UNCHANGED <<dispatch, hook, tail>>
  /\ UNCHANGED <<delivery, push, sent, vendorDb, preSignup, otp, session, updates>>
  /\ partner.pc = "idle"
  /\ calls < MaxCalls
  /\ calls' = calls + 1
  /\ partner' =
       IF ~Exists(oid) THEN IdlePartner
       ELSE [pc |-> "update", vendorId |-> pv,
             newStatus |-> IF ext = "none" THEN "none" ELSE MapExternalStatus(ext),
             previousStatus |-> order.status]
  /\ UNCHANGED <<order, now, req, resp, acceptOK, order0, creator>>

\* vendor-update, Order.findOneAndUpdate filtered by the id alone
VendorUpdateWrite ==
  /\ UNCHANGED <<dispatch, tail>>
  /\ UNCHANGED <<delivery, push, sent, vendorDb, preSignup, otp, session, updates>>
  /\ partner.pc = "update"
  /\ order' = [order EXCEPT !.vendorId = partner.vendorId,
                            !.status = IF partner.newStatus # "none"
                                         THEN partner.newStatus ELSE @]
  /\ partner' = IdlePartner
  /\ UNCHANGED <<now, req, resp, calls, acceptOK, order0, creator>>

\* ------------------------------------------------------------ dispatcher
\* distances are counted in units of 5 km
MaxDist == 3

\* findNearbyOnlineVendors(location, maxDistanceMeters = 10000)
SearchRadius == 2

\* VendorPresence.find(...).limit(10)
QueryLimit == 10

\* the Presence Index: per vendor the online flag and the distance of its
\* last known point from the pickup point
PresenceStates == [Vendors -> [online : BOOLEAN, dist : 0..MaxDist]]

NoPresence == [v \in Vendors |-> [online |-> FALSE, dist |-> 0]]

\* a variant that leaves out the online flag
WithinRadiusAnyVendor(p) ==
  {v \in Vendors : p[v].dist <= SearchRadius}

\* the presences the query matches:
\* {online: true, loc: {$geoWithin: {$centerSphere: [pickup, radius]}}}
WithinRadius(p) ==
  {v \in Vendors : p[v].online /\ p[v].dist <= SearchRadius}

\* the orders in which a find without sort can return the documents of S
Orderings(S) ==
  {s \in [1..Cardinality(S) -> S] : \A i, j \in 1..Cardinality(S) : s[i] = s[j] => i = j}

Limit(s, n) == SubSeq(s, 1, IF Len(s) < n THEN Len(s) ELSE n)

\* findNearbyOnlineVendors: the vendor ids of the matching presences, in the
\* order the store returns them ($geoWithin does not sort); a failing query
\* is caught and answered with the empty list
FindNearbyOnlineVendors(p, fail) ==
  IF fail THEN {<<>>}
  ELSE {Limit(s, QueryLimit) : s \in Orderings(WithinRadius(p))}

NoDispatch ==
  [pc |-> "idle", presence |-> NoPresence, queryFailed |-> FALSE,
   ids |-> <<>>, result |-> "none", push |-> "none"]

\* createOrder with autoAssignVendor: Order.create, then assignVendorToOrder
\* up to nearbyVendorIds[0]; with no id it returns null
DispatchCreate(p, fail, ids) ==
  /\ dispatch.pc = "idle"
  /\ ids \in FindNearbyOnlineVendors(p, fail)
  /\ CreateOrder(Null, TRUE, IF ids = <<>> THEN Null ELSE ids[1])
  /\ dispatch' = [NoDispatch EXCEPT !.pc = IF ids = <<>> THEN "returned" ELSE "save",
                                    !.presence = p, !.queryFailed = fail, !.ids = ids,
                                    !.result = IF ids = <<>> THEN "null" ELSE "none"]

DispatchSaveSkipped ==
  /\ dispatch.pc = "save"
  /\ dispatch' = [dispatch EXCEPT !.pc = "notify"]
  /\ UNCHANGED <<order, now, req, resp, calls, acceptOK, order0, creator, partner,
                 hook, tail>>
  /\ UNCHANGED <<delivery, push, sent, vendorDb, upsert, preSignup, otp, session, updates>>

\* assignVendorToOrder, order.save()
DispatchSave ==
  /\ dispatch.pc = "save"
  /\ AssignVendorSave
  /\ dispatch' = [dispatch EXCEPT !.pc = "notify"]

\* ------------------------------------------------- notificationService
\* what the messaging provider does with a push
PushModes == {"not_configured", "no_tokens", "provider_error", "partial", "delivered"}

FailedPush == {"not_configured", "no_tokens", "provider_error"}

\* a variant without the catch around the provider call
SendPushToVendorRethrows(mode) ==
  [success |-> mode \in {"partial", "delivered"}, threw |-> mode = "provider_error"]

\* sendPushToVendor: every failure, a rejected send included, is caught and
\* returned as {success: false}
SendPushToVendor(mode) ==
  [success |-> mode \in {"partial", "delivered"}, threw |-> FALSE]

\* assignVendorToOrder after its save: await notifyVendorNewOrder, then
\* return vendor; an exception would reach the catch, which returns null
DispatchNotify(mode) ==
  /\ dispatch.pc = "notify"
  /\ dispatch' = [dispatch EXCEPT !.pc = "returned", !.push = mode,
                                  !.result = IF SendPushToVendor(mode).threw
                                               THEN "null" ELSE "vendor"]
  /\ UNCHANGED <<order, now, req, resp, calls, acceptOK, order0, creator, partner,
                 hook, tail>>
  /\ UNCHANGED <<delivery, push, sent, vendorDb, upsert, preSignup, otp, session, updates>>

NoTail == [pc |-> "idle", push |-> "none", code |-> 0]

\* orderController.acceptOrder, a new request of a vendor whose earlier
\* request has been answered
LegacyAcceptBegin(v, oid) ==
  /\ tail[v].pc # "notify"
  /\ LegacyAcceptFind(v, oid)

\* orderController.acceptOrder, updateOrderStatus has saved
LegacyAcceptSaved(v) ==
  /\ UpdateOrderStatusSave(v)
  /\ tail' = [tail EXCEPT ![v] = [NoTail EXCEPT !.pc = "notify"]]

\* orderController.acceptOrder after the save: await
\* notifyVendorOrderStatusUpdate, then 200; an exception would reach the
\* catch, which answers 500
LegacyAcceptNotify(v, mode) ==
  /\ tail[v].pc = "notify"
  /\ tail' = [tail EXCEPT ![v] =
       [pc |-> "responded", push |-> mode,
        code |-> IF SendPushToVendor(mode).threw THEN 500 ELSE 200]]
  /\ UNCHANGED <<order, now, req, resp, calls, acceptOK, order0, creator, partner,
                 dispatch, hook>>
  /\ UNCHANGED <<delivery, push, sent, vendorDb, upsert, preSignup, otp, session, updates>>

\* ------------------------------------------------------- customer webhook
\* what happens to the webhook: no URL configured (nothing is posted), a 2xx
\* answer, a failure after the retries or on a 4xx
WebhookModes == {"not_configured", "delivered", "failed"}

\* triggerOrderStatusWebhook: the result of notifyCustomerOrderUpdate, or
\* {success: false} from its catch
TriggerOrderStatusWebhook(mode) ==
  [success |-> mode = "delivered", threw |-> FALSE]

\* vendor-update: if (newStatus && previousStatus !== newStatus)
ShouldTrigger(newStatus, previousStatus) ==
  newStatus # "none" /\ previousStatus # newStatus

NoHook ==
  [pc |-> "idle", carried |-> FALSE, changed |-> FALSE, trigger |-> FALSE,
   endpoint |-> "none", posted |-> FALSE, webhookSent |-> FALSE, code |-> 0]

\* vendor-update, a new request after the earlier one has been answered
VendorUpdateBegin(pv, ext, oid) ==
  /\ hook.pc # "webhook"
  /\ VendorUpdateFind(pv, ext, oid)
  /\ UNCHANGED upsert

\* vendor-update, its findOneAndUpdate and the decision that follows it;
\* changed: whether this write changed the stored status
VendorUpdateWritten ==
  /\ VendorUpdateWrite
  /\ UNCHANGED upsert
  /\ hook' = [NoHook EXCEPT !.pc = "webhook",
                            !.carried = partner.newStatus # "none",
                            !.changed = order'.status # order.status,
                            !.trigger = ShouldTrigger(partner.newStatus,
                                                      partner.previousStatus)]

\* vendor-update, the webhook inside its try / catch and the response
\* {success: true, orderUpdated, webhookSent: webhookResult ? .success : false}
VendorUpdateRespond(mode) ==
  /\ hook.pc = "webhook"
  /\ hook' = [hook EXCEPT !.pc = "responded", !.endpoint = mode,
                          !.posted = hook.trigger /\ mode \in {"delivered", "failed"},
                          !.webhookSent = hook.trigger
                                          /\ TriggerOrderStatusWebhook(mode).success,
                          !.code = 200]
  /\ UNCHANGED <<order, now, req, resp, calls, acceptOK, order0, creator, partner,
                 dispatch, tail>>
  /\ UNCHANGED <<delivery, push, sent, vendorDb, upsert, preSignup, otp, session, updates>>

\* ------------------------------------------- notifyCustomerOrderUpdate
\* options.retries, its default
Retries == 3

MaxAttemptsOneMore == Retries + 2

\* the loop runs for attempt = 1 .. retries + 1
MaxAttempts == Retries + 1

\* what one axios call can end in: a response with a status, no response
\* within the timeout, a refused connection
Answers ==
  {[kind |-> "response", status |-> s] :
     s \in {200, 204, 400, 404, 408, 429, 500, 503}}
  \cup {[kind |-> "timeout", status |-> 0], [kind |-> "refused", status |-> 0]}

\* validateStatus of the request configuration
ValidateStatus(status) == status >= 200 /\ status < 300

\* axios resolves: a response whose status validateStatus accepts
Resolves(a) == a.kind = "response" /\ ValidateStatus(a.status)

NonRetryableNever(a) == FALSE

\* the catch block's test for a client error that is not retried
NonRetryable(a) ==
  /\ a.kind = "response"
  /\ a.status >= 400 /\ a.status < 500
  /\ a.status \notin {408, 429}

NoDelivery ==
  [pc |-> "idle", attempt |-> 0, log |-> <<>>, waits |-> <<>>,
   result |-> [success |-> FALSE, attempts |-> 0, error |-> "none"]]

\* notifyCustomerOrderUpdate up to its loop: without a configured URL it
\* returns at once; log is the answers the endpoint gave so far, one per
\* HTTP request made
NotifyCustomerOrderUpdate(configured) ==
  /\ delivery.pc = "idle"
  /\ delivery' =
       IF configured
         THEN [NoDelivery EXCEPT !.pc = "request", !.attempt = 1]
         ELSE [NoDelivery EXCEPT !.pc = "returned",
                                 !.result.error = "not_configured"]
  /\ UNCHANGED orderVars
  /\ UNCHANGED <<push, sent, vendorDb, upsert, preSignup, otp, session, updates>>

\* one pass of the loop up to its next await: the request and, on a
\* rejection, the catch block; the failure result carries
\* attempts: retries + 1 whatever the number of requests made
WebhookAttempt(a) ==
  /\ delivery.pc = "request"
  /\ delivery.attempt <= MaxAttempts
  /\ delivery' =
       IF Resolves(a) THEN
         [delivery EXCEPT !.pc = "returned", !.log = Append(@, a),
            !.result = [success |-> TRUE, attempts |-> delivery.attempt,
                        error |-> "none"]]
       ELSE IF NonRetryable(a) \/ delivery.attempt = MaxAttempts THEN
         [delivery EXCEPT !.pc = "returned", !.log = Append(@, a),
            !.result = [success |-> FALSE, attempts |-> Retries + 1,
                        error |-> a.kind]]
       ELSE [delivery EXCEPT !.pc = "backoff", !.log = Append(@, a)]
  /\ UNCHANGED orderVars
  /\ UNCHANGED <<push, sent, vendorDb, upsert, preSignup, otp, session, updates>>

BackoffDelayConstant(attempt) == 1

\* the delay given to setTimeout, attempt * 1000 ms, counted in seconds
BackoffDelay(attempt) == attempt * 1

\* the setTimeout after a failed attempt, and attempt++
WebhookBackoff ==
  /\ delivery.pc = "backoff"
  /\ delivery' = [delivery EXCEPT !.pc = "request", !.attempt = @ + 1,
                                  !.waits = Append(@, BackoffDelay(delivery.attempt))]
  /\ UNCHANGED orderVars
  /\ UNCHANGED <<push, sent, vendorDb, upsert, preSignup, otp, session, updates>>

\* ------------------------------------------ createOrderFromCustomer
ExternalOrderDataAutoAssign == [vendorId |-> Null, autoAssignVendor |-> TRUE]

\* the orderData createOrderFromCustomer builds: no vendorId, and
\* autoAssignVendor: false
ExternalOrderData == [vendorId |-> Null, autoAssignVendor |-> FALSE]

\* createOrderFromCustomer: orderService.createOrder(orderData) and the 201
\* response; p is the presence of the vendors at that moment and ids what
\* findNearbyOnlineVendors would return for it
CreateOrderFromCustomer(p, ids) ==
  /\ dispatch.pc = "idle"
  /\ ids \in FindNearbyOnlineVendors(p, FALSE)
  /\ CreateOrder(ExternalOrderData.vendorId, ExternalOrderData.autoAssignVendor,
                 IF ids = <<>> THEN Null ELSE ids[1])
  /\ dispatch' = [NoDispatch EXCEPT !.pc = "external", !.presence = p, !.ids = ids]

\* ------------------------------------------------- sendPushToVendor
NumTokens == 3

\* the device tokens a vendor can have registered
Tokens == 1..NumTokens

\* what the provider reports for one token of a multicast: delivered,
\* permanently invalid (unregistered), or failed for a passing reason
TokenOutcomes == {"ok", "invalid", "transient"}

NoPush ==
  [pc |-> "idle", tokens |-> {}, before |-> {}, configured |-> TRUE,
   read |-> {}, sends |-> 0, failed |-> {}, invalid |-> {}, pruned |-> FALSE,
   result |-> [success |-> FALSE, error |-> "none"]]

NoTokensNever(ts) == FALSE

\* !vendor || !vendor.fcmTokens || vendor.fcmTokens.length === 0
NoTokens(ts) == ts = {}

\* sendPushToVendor up to its send: getMessaging(), then Vendor.findById;
\* before is the vendor's token set when the call began
PushLookup(configured) ==
  /\ push.pc \in {"idle", "returned"}
  /\ push' =
       LET p == [NoPush EXCEPT !.tokens = push.tokens, !.before = push.tokens,
                               !.configured = configured]
       IN IF ~configured THEN
            [p EXCEPT !.pc = "returned", !.result.error = "not_configured"]
          ELSE IF NoTokens(push.tokens) THEN
            [p EXCEPT !.pc = "returned", !.result.error = "no_tokens"]
          ELSE [p EXCEPT !.pc = "send", !.read = push.tokens]
  /\ UNCHANGED orderVars
  /\ UNCHANGED <<delivery, sent, vendorDb, upsert, preSignup, otp, session, updates>>

\* the multicast send: it rejects (caught, {success: false}), or answers
\* with one outcome per token; failedTokens collects every token whose
\* response is not a success
PushSend(rejects, outcome) ==
  /\ push.pc = "send"
  /\ push' =
       IF rejects THEN
         [push EXCEPT !.pc = "returned", !.sends = @ + 1,
                      !.result.error = "provider_error"]
       ELSE
         LET failed == {t \in push.read : outcome[t] # "ok"}
         IN [push EXCEPT !.pc = IF failed = {} THEN "returned" ELSE "prune",
                         !.sends = @ + 1,
                         !.failed = failed,
                         !.invalid = {t \in push.read : outcome[t] = "invalid"},
                         !.result = [success |-> TRUE, error |-> "none"]]
  /\ UNCHANGED orderVars
  /\ UNCHANGED <<delivery, sent, vendorDb, upsert, preSignup, otp, session, updates>>

\* removeInvalidTokens(vendorId, failedTokens): $pull of the tokens given,
\* or an error of the store, which is logged
RemoveInvalidTokens(storeFails) ==
  /\ push.pc = "prune"
  /\ push' = [push EXCEPT !.pc = "returned",
                          !.pruned = ~storeFails,
                          !.tokens = IF storeFails THEN @ ELSE @ \ push.failed]
  /\ UNCHANGED orderVars
  /\ UNCHANGED <<delivery, sent, vendorDb, upsert, preSignup, otp, session, updates>>

NoSent == [webhooks |-> 0, pushes |-> 0]
\* --------------------------------- POST /vendor-update, the vendor part
MaxUpserts == 3

\* statuses a partner may send that vendorUpdateSchema does not list
OtherStatuses == {"pending", "delivered"}

\* vendorUpdateSchema: status is optional ("none": absent) and otherwise
\* one of the five listed values
ValidStatus(ext) == ext = "none" \/ ext \in ExternalStatuses

NoUpsert ==
  [pc |-> "idle", vendorId |-> Null, status |-> "none", oid |-> "none",
   wasUpserted |-> FALSE, code |-> 0, requests |-> 0,
   served |-> [id \in Vendors |-> 0]]

InsertVendor(db, id) == [db EXCEPT ![id] = @ + 1]

\* Vendor.findOneAndUpdate({vendorId}, {$set}, {upsert: true}): the matching
\* document is updated, or one is inserted when none matches
UpsertVendor(db, id) == [db EXCEPT ![id] = IF @ = 0 THEN 1 ELSE @]

\* vendor-update up to its first write: validation of the mapped payload
\* (400 on failure), then Vendor.findOne and wasUpserted
VendorUpsertFind(id, ext, oid) ==
  /\ upsert.pc \in {"idle", "responded"}
  /\ partner.pc = "idle"
  /\ upsert.requests < MaxUpserts
  /\ upsert' =
       LET u == [upsert EXCEPT !.vendorId = id, !.status = ext, !.oid = oid,
                               !.requests = @ + 1, !.wasUpserted = FALSE]
       IN IF ~ValidStatus(ext)
            THEN [u EXCEPT !.pc = "responded", !.code = 400]
            ELSE [u EXCEPT !.pc = "write", !.code = 0,
                           !.wasUpserted = (vendorDb[id] = 0)]
  /\ UNCHANGED orderVars
  /\ UNCHANGED <<delivery, push, sent, vendorDb, preSignup, otp, session, updates>>

\* vendor-update, the upsert of the vendor
VendorUpsertWrite ==
  /\ upsert.pc = "write"
  /\ vendorDb' = UpsertVendor(vendorDb, upsert.vendorId)
  /\ upsert' = [upsert EXCEPT !.pc = IF upsert.oid = "none" THEN "respond"
                                                            ELSE "order"]
  /\ UNCHANGED orderVars
  /\ UNCHANGED <<delivery, push, sent, preSignup, otp, session, updates>>

\* vendor-update with assignedOrderId: the order part begins, carrying the
\* vendor document's id and the validated status
VendorUpsertOrderFind ==
  /\ upsert.pc = "order"
  /\ VendorUpdateFind(upsert.vendorId, upsert.status, upsert.oid)
  /\ UNCHANGED hook
  /\ upsert' = [upsert EXCEPT !.pc = IF Exists(upsert.oid) THEN "order_write"
                                                           ELSE "respond"]

VendorUpsertOrderWrite ==
  /\ upsert.pc = "order_write"
  /\ VendorUpdateWrite
  /\ UNCHANGED hook
  /\ upsert' = [upsert EXCEPT !.pc = "respond"]

\* vendor-update, res.status(200).json({success: true, vendorId, upserted:
\* wasUpserted, ...})
VendorUpsertRespond ==
  /\ upsert.pc = "respond"
  /\ upsert' = [upsert EXCEPT !.pc = "responded", !.code = 200,
                              !.served[upsert.vendorId] = @ + 1]
  /\ UNCHANGED orderVars
  /\ UNCHANGED <<delivery, push, sent, vendorDb, preSignup, otp, session, updates>>

\* ------------------------------------------- POST /api/public/fcm-token
MaxRegistrations == 3

\* valid request bodies; deviceId "none": the body carries no deviceId
Registrations ==
  [phone : {"+911", "+912"}, fcmToken : {"t-a", "t-b"},
   deviceId : {"d-a", "d-b", "none"}]

\* the collection, the number of requests served, and for the last request:
\* its body, the id of the document that held its fcmToken when it arrived
\* (0: none), the response code and the id returned
NoPreSignup ==
  [records |-> {}, requests |-> 0,
   last |-> [phone |-> "none", fcmToken |-> "none", deviceId |-> "none",
             held |-> 0, code |-> 0, id |-> 0]]

\* the documents the query {$or: [{fcmToken}, {phone, deviceId}]} matches;
\* the second clause is there only when the body has a deviceId
Matches(recs, r) ==
  {d \in recs : \/ d.fcmToken = r.fcmToken
                \/ r.deviceId # "none" /\ d.phone = r.phone
                   /\ d.deviceId = r.deviceId}

\* POST /fcm-token: one findOneAndUpdate with upsert. Without a match a
\* document is inserted. With matches the store updates one of them (pick;
\* no sort is given); the unique index on fcmToken refuses the update when
\* another document holds the token, and the catch answers 500
RegisterFcmToken(r, pick) ==
  /\ preSignup.requests < MaxRegistrations
  /\ LET recs == preSignup.records
         m == Matches(recs, r)
         holders == {d \in recs : d.fcmToken = r.fcmToken}
         held == IF holders = {} THEN 0 ELSE (CHOOSE d \in holders : TRUE).id
         newId == preSignup.requests + 1
         doc == [id |-> IF m = {} THEN newId ELSE pick, phone |-> r.phone,
                 fcmToken |-> r.fcmToken, deviceId |-> r.deviceId]
         refused == \E d \in recs : d.id # doc.id /\ d.fcmToken = r.fcmToken
         answer(code, id) ==
           [phone |-> r.phone, fcmToken |-> r.fcmToken, deviceId |-> r.deviceId,
            held |-> held, code |-> code, id |-> id]
     IN /\ (m = {} /\ pick = 0) \/ (\E d \in m : d.id = pick)
        /\ preSignup' =
             IF refused THEN
               [preSignup EXCEPT !.requests = @ + 1, !.last = answer(500, 0)]
             ELSE
               [records |-> {d \in recs : d.id # doc.id} \cup {doc},
                requests |-> preSignup.requests + 1,
                last |-> answer(201, doc.id)]
  /\ UNCHANGED orderVars
  /\ UNCHANGED <<delivery, push, sent, vendorDb, upsert, otp, session, updates>>

\* ------------------------------------------------------- utils/otpStore
MaxOtpCalls == 4
OtpExpiry == 1

Mobiles == {"m1", "m2"}

\* generateOTP: a random string of digits; two values stand for equal and
\* different codes
GenerateOTP == {"1111", "2222"}

NoEntry == [code |-> "none", expiresAt |-> 0]

\* an empty otpStore; issued[m]: the code and expiry of the last sendOtp(m)
\* and whether a verifyOtp has succeeded since; last: the last call and what
\* it returned
NoOtp ==
  [store |-> [m \in Mobiles |-> NoEntry],
   issued |-> [m \in Mobiles |-> [code |-> "none", expiresAt |-> 0, verified |-> FALSE]],
   last |-> [op |-> "none", mobile |-> "none", code |-> "none", success |-> FALSE,
             message |-> "none"],
   calls |-> 0]

DeleteKeeps(store, mobile) == store

\* otpStore.delete(mobile)
Delete(store, mobile) == [store EXCEPT ![mobile] = NoEntry]

\* sendOtp(mobile): a fresh code replaces whatever the store held
SendOtp(mobile, code) ==
  /\ otp.calls < MaxOtpCalls
  /\ otp' = [otp EXCEPT
       !.store[mobile] = [code |-> code, expiresAt |-> now + OtpExpiry],
       !.issued[mobile] = [code |-> code, expiresAt |-> now + OtpExpiry,
                           verified |-> FALSE],
       !.last = [op |-> "send", mobile |-> mobile, code |-> code, success |-> TRUE,
                 message |-> "none"],
       !.calls = @ + 1]
  /\ UNCHANGED orderVars
  /\ UNCHANGED <<delivery, push, sent, vendorDb, upsert, preSignup, session, updates>>

\* verifyOtp(mobile, code)
VerifyOtp(mobile, code) ==
  /\ otp.calls < MaxOtpCalls
  /\ LET otpData == otp.store[mobile]
         answer(ok, msg) == [op |-> "verify", mobile |-> mobile, code |-> code,
                             success |-> ok, message |-> msg]
     IN otp' =
          IF otpData = NoEntry THEN
            [otp EXCEPT !.last = answer(FALSE, "not_found"), !.calls = @ + 1]
          ELSE IF now > otpData.expiresAt THEN
            [otp EXCEPT !.store = Delete(@, mobile),
                        !.last = answer(FALSE, "expired"), !.calls = @ + 1]
          ELSE IF otpData.code # code THEN
            [otp EXCEPT !.last = answer(FALSE, "invalid"), !.calls = @ + 1]
          ELSE
            [otp EXCEPT !.store = Delete(@, mobile),
                        !.issued[mobile].verified = TRUE,
                        !.last = answer(TRUE, "verified"), !.calls = @ + 1]
  /\ UNCHANGED orderVars
  /\ UNCHANGED <<delivery, push, sent, vendorDb, upsert, preSignup, session, updates>>

\* cleanupExpiredOtps, run by the interval timer
CleanupExpiredOtps ==
  /\ \E m \in Mobiles : otp.store[m] # NoEntry /\ now > otp.store[m].expiresAt
  /\ otp' = [otp EXCEPT !.store =
       [m \in Mobiles |-> IF otp.store[m] # NoEntry /\ now > otp.store[m].expiresAt
                            THEN NoEntry ELSE otp.store[m]]]
  /\ UNCHANGED orderVars
  /\ UNCHANGED <<delivery, push, sent, vendorDb, upsert, preSignup, session, updates>>

\* ------------------------------- POST /vendor-update, requests in flight
NumRequests == 2
Requests == 1..NumRequests

NoUpdate ==
  [pc |-> "idle", vendorId |-> Null, status |-> "none", oid |-> "none",
   wasUpserted |-> FALSE, previousStatus |-> "none", newStatus |-> "none",
   posted |-> FALSE, code |-> 0]

NoUpdates == [r \in Requests |-> NoUpdate]

\* request r, up to its first await: the validated payload, Vendor.findOne
\* and wasUpserted
UpdateFindVendor(r, id, ext, oid) ==
  /\ updates[r].pc = "idle"
  /\ ValidStatus(ext)
  /\ updates' = [updates EXCEPT ![r] =
       [NoUpdate EXCEPT !.pc = "upsert", !.vendorId = id, !.status = ext,
                        !.oid = oid, !.wasUpserted = (vendorDb[id] = 0)]]
  /\ UNCHANGED orderVars
  /\ UNCHANGED <<delivery, push, sent, vendorDb, upsert, preSignup, otp, session>>

\* request r, the upsert of the vendor
UpdateUpsertVendor(r) ==
  /\ updates[r].pc = "upsert"
  /\ vendorDb' = UpsertVendor(vendorDb, updates[r].vendorId)
  /\ updates' = [updates EXCEPT ![r].pc =
       IF updates[r].oid = "none" THEN "respond" ELSE "order_find"]
  /\ UNCHANGED orderVars
  /\ UNCHANGED <<delivery, push, sent, upsert, preSignup, otp, session>>

\* request r with assignedOrderId: Order.findOne, previousStatus and the
\* status mapping
UpdateFindOrder(r) ==
  /\ updates[r].pc = "order_find"
  /\ updates' = [updates EXCEPT ![r] =
       IF ~Exists(updates[r].oid) THEN [@ EXCEPT !.pc = "respond"]
       ELSE [@ EXCEPT !.pc = "order_write",
                      !.previousStatus = order.status,
                      !.newStatus = IF updates[r].status = "none" THEN "none"
                                    ELSE MapExternalStatus(updates[r].status)]]
  /\ UNCHANGED orderVars
  /\ UNCHANGED <<delivery, push, sent, vendorDb, upsert, preSignup, otp, session>>

\* request r, Order.findOneAndUpdate filtered by the id alone, and the test
\* that decides on the webhook
UpdateWriteOrder(r) ==
  /\ updates[r].pc = "order_write"
  /\ order' = [order EXCEPT !.vendorId = updates[r].vendorId,
                            !.status = IF updates[r].newStatus # "none"
                                         THEN updates[r].newStatus ELSE @]
  /\ updates' = [updates EXCEPT ![r].pc =
       IF ShouldTrigger(updates[r].newStatus, updates[r].previousStatus)
         THEN "webhook" ELSE "respond"]
  /\ UNCHANGED <<now, req, resp, calls, acceptOK, order0, creator, partner>>
  /\ UNCHANGED <<dispatch, hook, tail>>
  /\ UNCHANGED <<delivery, push, sent, vendorDb, upsert, preSignup, otp, session>>

\* request r, triggerOrderStatusWebhook: a request goes out unless no URL
\* is configured
UpdateWebhook(r, mode) ==
  /\ updates[r].pc = "webhook"
  /\ updates' = [updates EXCEPT ![r].pc = "respond",
                                ![r].posted = (mode # "not_configured")]
  /\ UNCHANGED orderVars
  /\ UNCHANGED <<delivery, push, sent, vendorDb, upsert, preSignup, otp, session>>

\* request r, res.status(200).json({success: true, upserted: wasUpserted, ...})
UpdateRespond(r) ==
  /\ updates[r].pc = "respond"
  /\ updates' = [updates EXCEPT ![r].pc = "responded", ![r].code = 200]
  /\ UNCHANGED orderVars
  /\ UNCHANGED <<delivery, push, sent, vendorDb, upsert, preSignup, otp, session>>


\* ------------------------------------------------------- specifications
\* an order after creation and dispatch: still pending, or assigned to a
\* vendor at some earlier time t
Dispatched(t) ==
  {NewOrder(Null)} \cup
  {[NewOrder(v) EXCEPT !.status = "assigned", !.assignedAt = a] :
     v \in Vendors, a \in 1..t}

\* no push, vendor-update or registration has been made
InitServices ==
  /\ push = NoPush
  /\ sent = NoSent
  /\ vendorDb = [id \in Vendors |-> 0]
  /\ upsert = NoUpsert
  /\ preSignup = NoPreSignup
  /\ otp = NoOtp
  /\ session = [v \in Vendors |-> v]
  /\ updates = NoUpdates

\* no request in flight
InitHandlers ==
  /\ req = [v \in Vendors |-> Idle]
  /\ resp = [v \in Vendors |-> NoResp]
  /\ calls = 0
  /\ acceptOK = {}
  /\ creator = [pc |-> "idle", vendorId |-> Null]
  /\ partner = IdlePartner
  /\ dispatch = NoDispatch
  /\ hook = NoHook
  /\ tail = [v \in Vendors |-> NoTail]
  /\ delivery = NoDelivery

InitCommon == InitHandlers /\ InitServices

InitEngine ==
  /\ InitCommon
  /\ now \in Times
  /\ order \in Dispatched(now)
  /\ order0 = order

NextEngine ==
  \/ Tick
  \/ SubFlowStep
  \/ \E v \in Vendors, oid \in OrderIds :
       \/ AcceptFind(v, oid)
       \/ RejectFind(v, oid)
       \/ StartOrder(v, oid)
       \/ CompleteOrder(v, oid)
       \/ CancelFind(v, oid)
  \/ \E v \in Vendors :
       \/ AcceptAssignedUpdate(v)
       \/ AcceptPendingClaim(v)
       \/ RejectUpdate(v)
       \/ CancelUpdate(v)

SpecEngine == InitEngine /\ [][NextEngine]_vars

\* accept calls, at most one per vendor, racing on one dispatched order
RaceAccept(v, oid) ==
  /\ resp[v].op = "none"
  /\ AcceptFind(v, oid)

NextAcceptRace ==
  \/ Tick
  \/ \E v \in Vendors, oid \in OrderIds : RaceAccept(v, oid)
  \/ \E v \in Vendors :
       \/ AcceptAssignedUpdate(v)
       \/ AcceptPendingClaim(v)

SpecAcceptRace == InitEngine /\ [][NextAcceptRace]_vars

\* both controllers a vendor can reach, on one dispatched order
NextLegacy ==
  \/ \E v \in Vendors, oid \in OrderIds :
       \/ LegacyAcceptFind(v, oid)
       \/ LegacyRejectFind(v, oid)
  \/ \E v \in Vendors :
       \/ UpdateOrderStatusFind(v)
       \/ UpdateOrderStatusSave(v) /\ UNCHANGED tail
       \/ LegacyRejectSave(v)

NextVendorApi == NextEngine \/ NextLegacy

SpecVendorApi == InitEngine /\ [][NextVendorApi]_vars

\* the vendor-facing handlers and the partner's vendor-update, on one
\* dispatched order
NextPartner ==
  \/ \E pv \in Vendors, ext \in ExternalStatuses \cup {"none"}, oid \in OrderIds :
       VendorUpdateFind(pv, ext, oid) /\ UNCHANGED upsert
  \/ VendorUpdateWrite /\ UNCHANGED <<hook, upsert>>

SpecPartner == InitEngine /\ [][NextEngine \/ NextPartner]_vars

\* the dispatcher alone: one order created with autoAssignVendor
InitDispatch ==
  /\ InitCommon
  /\ now \in Times
  /\ order = NoOrder
  /\ order0 = NoOrder

NextDispatch ==
  \/ \E p \in PresenceStates, fail \in BOOLEAN :
       \E ids \in FindNearbyOnlineVendors(p, fail) :
         DispatchCreate(p, fail, ids)
  \/ DispatchSave
  \/ \E mode \in PushModes : DispatchNotify(mode)

SpecDispatch == InitDispatch /\ [][NextDispatch]_vars

\* the whole program, from an empty order store
Init ==
  /\ InitCommon
  /\ now = 1
  /\ order = NoOrder
  /\ order0 = NoOrder

Next ==
  \/ NextEngine
  \/ \E dataVendor \in Vendors \cup {Null, GhostVendor}, autoAssign \in BOOLEAN,
        cand \in Vendors \cup {Null} :
       CreateOrder(dataVendor, autoAssign, cand) /\ UNCHANGED dispatch
  \/ AssignVendorSave /\ UNCHANGED dispatch
  \/ ExplicitVendorSave
  \/ NextLegacy
  \/ NextPartner

Spec == Init /\ [][Next]_vars

\* presence states with every vendor at the pickup point, online or not
PresenceAtPickup == {p \in PresenceStates : \A v \in Vendors : p[v].dist = 0}

\* the handlers that notify after their write: the dispatcher's push, the
\* push of orderController.acceptOrder, the webhook of vendor-update
NextNotify ==
  \/ \E p \in PresenceAtPickup, fail \in BOOLEAN :
       \E ids \in FindNearbyOnlineVendors(p, fail) :
         DispatchCreate(p, fail, ids)
  \/ DispatchSave
  \/ \E mode \in PushModes : DispatchNotify(mode)
  \/ \E v \in Vendors, oid \in OrderIds : LegacyAcceptBegin(v, oid)
  \/ \E v \in Vendors :
       \/ UpdateOrderStatusFind(v)
       \/ LegacyAcceptSaved(v)
       \/ \E mode \in PushModes : LegacyAcceptNotify(v, mode)
  \/ \E pv \in Vendors, ext \in ExternalStatuses \cup {"none"}, oid \in OrderIds :
       VendorUpdateBegin(pv, ext, oid)
  \/ VendorUpdateWritten
  \/ \E mode \in WebhookModes : VendorUpdateRespond(mode)

SpecNotify == Init /\ [][NextNotify]_vars

\* the vendor-facing handlers and vendor-update with its webhook, on one
\* dispatched order
NextWebhook ==
  \/ NextEngine
  \/ \E pv \in Vendors, ext \in ExternalStatuses \cup {"none"}, oid \in OrderIds :
       VendorUpdateBegin(pv, ext, oid)
  \/ VendorUpdateWritten
  \/ \E mode \in WebhookModes : VendorUpdateRespond(mode)

SpecWebhook == InitEngine /\ [][NextWebhook]_vars

\* one call of notifyCustomerOrderUpdate against an endpoint that answers
\* as it likes
NextDelivery ==
  \/ \E configured \in BOOLEAN : NotifyCustomerOrderUpdate(configured)
  \/ \E a \in Answers : WebhookAttempt(a)
  \/ WebhookBackoff

SpecDelivery == Init /\ [][NextDelivery]_vars

\* the same call under the scheduling the code relies on: axios settles
\* every request (it carries a timeout) and every setTimeout fires
SpecDeliveryLive ==
  /\ Init /\ [][NextDelivery]_vars
  /\ WF_vars(\E a \in Answers : WebhookAttempt(a))
  /\ WF_vars(WebhookBackoff)

\* pushes to one vendor, whatever tokens the vendor has registered
InitPush ==
  /\ InitHandlers
  /\ now = 1
  /\ order = NoOrder
  /\ order0 = NoOrder
  /\ push \in {[NoPush EXCEPT !.tokens = ts] : ts \in SUBSET Tokens}
  /\ sent = NoSent
  /\ vendorDb = [id \in Vendors |-> 0]
  /\ upsert = NoUpsert
  /\ preSignup = NoPreSignup
  /\ otp = NoOtp
  /\ session = [v \in Vendors |-> v]
  /\ updates = NoUpdates

NextPush ==
  \/ \E configured \in BOOLEAN : PushLookup(configured)
  \/ \E rejects \in BOOLEAN, outcome \in [push.read -> TokenOutcomes] :
       PushSend(rejects, outcome)
  \/ \E storeFails \in BOOLEAN : RemoveInvalidTokens(storeFails)

SpecPush == InitPush /\ [][NextPush]_vars

\* vendor-update requests of one partner, one after the other, on one
\* dispatched order
NextUpsert ==
  \/ \E id \in Vendors, ext \in ExternalStatuses \cup OtherStatuses \cup {"none"},
        oid \in OrderIds \cup {"none"} :
       VendorUpsertFind(id, ext, oid)
  \/ VendorUpsertWrite
  \/ VendorUpsertOrderFind
  \/ VendorUpsertOrderWrite
  \/ VendorUpsertRespond

SpecUpsert == InitEngine /\ [][NextUpsert]_vars

\* an order created through the external customer endpoint, and the vendors
\* acting on it afterwards
NextExternal ==
  \/ \E p \in PresenceStates :
       \E ids \in FindNearbyOnlineVendors(p, FALSE) : CreateOrderFromCustomer(p, ids)
  \/ Tick
  \/ \E v \in Vendors, oid \in OrderIds :
       \/ AcceptFind(v, oid)
       \/ RejectFind(v, oid)
       \/ StartOrder(v, oid)
       \/ CompleteOrder(v, oid)
       \/ CancelFind(v, oid)
  \/ \E v \in Vendors :
       \/ AcceptPendingClaim(v)
       \/ RejectUpdate(v)
       \/ CancelUpdate(v)

SpecExternal == InitDispatch /\ [][NextExternal]_vars

\* pre-signup token registrations, one after the other
\* accept and reject requests on one dispatched order, through connections
\* that may belong to the same vendor
InitAcceptReject ==
  /\ InitHandlers
  /\ push = NoPush
  /\ sent = NoSent
  /\ vendorDb = [id \in Vendors |-> 0]
  /\ upsert = NoUpsert
  /\ preSignup = NoPreSignup
  /\ otp = NoOtp
  /\ updates = NoUpdates
  /\ session \in [Vendors -> Vendors]
  /\ now \in Times
  /\ order \in Dispatched(now)
  /\ order0 = order

NextAcceptReject ==
  \/ Tick
  \/ \E v \in Vendors, oid \in OrderIds : \/ AcceptFind(v, oid) \/ RejectFind(v, oid)
  \/ \E v \in Vendors : \/ AcceptAssignedUpdate(v) \/ AcceptPendingClaim(v) \/ RejectUpdate(v)

SpecAcceptReject == InitAcceptReject /\ [][NextAcceptReject]_vars

\* vendor-update requests in flight together, on one dispatched order and no
\* vendor known yet
NextUpdates ==
  \/ \E r \in Requests, id \in Vendors, ext \in ExternalStatuses \cup {"none"},
        oid \in OrderIds \cup {"none"} : UpdateFindVendor(r, id, ext, oid)
  \/ \E r \in Requests :
       \/ UpdateUpsertVendor(r)
       \/ UpdateFindOrder(r)
       \/ UpdateWriteOrder(r)
       \/ \E mode \in WebhookModes : UpdateWebhook(r, mode)
       \/ UpdateRespond(r)

SpecUpdates == InitEngine /\ [][NextUpdates]_vars

\* sendOtp and verifyOtp calls for two mobiles while the clock runs
NextOtp ==
  \/ Tick
  \/ \E m \in Mobiles, c \in GenerateOTP : SendOtp(m, c) \/ VerifyOtp(m, c)
  \/ CleanupExpiredOtps

InitOtp ==
  /\ InitCommon
  /\ now = 0
  /\ order = NoOrder
  /\ order0 = NoOrder

SpecOtp == InitOtp /\ [][NextOtp]_vars

NextFcm ==
  \E r \in Registrations, pick \in 0..MaxRegistrations : RegisterFcmToken(r, pick)

SpecFcm == Init /\ [][NextFcm]_vars

\* createOrder on every path (auto-assignment, an explicit vendor, an explicit
\* vendor that does not exist), with vendors accepting and rejecting the
\* order while the call is under way
NextCreate ==
  \/ \E p \in PresenceAtPickup, fail \in BOOLEAN :
       \E ids \in FindNearbyOnlineVendors(p, fail) :
         DispatchCreate(p, fail, ids)
  \/ DispatchSave
  \/ \E mode \in PushModes : DispatchNotify(mode)
  \/ \E dataVendor \in Vendors \cup {GhostVendor} :
       CreateOrder(dataVendor, FALSE, Null) /\ UNCHANGED dispatch
  \/ ExplicitVendorSave
  \/ Tick
  \/ \E v \in Vendors, oid \in OrderIds :
       \/ AcceptFind(v, oid)
       \/ RejectFind(v, oid)
  \/ \E v \in Vendors :
       \/ AcceptAssignedUpdate(v)
       \/ AcceptPendingClaim(v)
       \/ RejectUpdate(v)

SpecCreate == InitDispatch /\ [][NextCreate]_vars

\* ================================================================ claims
Quiescent == \A v \in Vendors : req[v].pc = "idle"

\* the vendors whose accept call reached the order "o1"
Callers ==
  {v \in Vendors : resp[v].op = "accept" /\ resp[v].kind # "not_found"}

Winners == {v \in Callers : resp[v].code = 200}

\* C1: across accept, reject, start, complete and cancel calls in any
\* interleaving, at most one vendor ever receives a success from accept, and
\* the order carries that vendor.
C1_AtMostOneAcceptedVendor ==
  /\ Cardinality(acceptOK) <= 1
  /\ \A v \in acceptOK : order.vendorId = v

\* one vendor has accepted and another vendor's accept was turned down
C1_Witness ==
  \E v, w \in Vendors :
    /\ v # w
    /\ acceptOK = {v}
    /\ resp[w].op = "accept"
    /\ resp[w].code \in {403, 409}

C3_PendingClaimOneWinner ==
  (Quiescent /\ order0.status = "pending" /\ Cardinality(Callers) >= 2) =>
    /\ Cardinality(Winners) = 1
    /\ \A v \in Callers \ Winners : resp[v].code = 409
    /\ \A v \in Winners :
         \E t \in Times :
           order = [NewOrder(v) EXCEPT !.status = "accepted",
                                       !.acceptedAt = t, !.assignedAt = t]

\* two vendors raced for a pending order: one claimed it, one got a conflict
C3_Witness ==
  /\ Quiescent
  /\ order0.status = "pending"
  /\ \E v, w \in Callers : resp[v].code = 200 /\ resp[w].code = 409

AcceptOps == {"accept", "legacy_accept"}

\* C4 (as claimed): a vendor whose accept succeeded and who calls accept
\* again on the order it still holds as accepted gets success again, and the
\* order is unchanged.
C4_AcceptIdempotent ==
  [][\A v \in Vendors :
       ( /\ AcceptFind(v, "o1") \/ LegacyAcceptFind(v, "o1")
         /\ resp[v].op \in AcceptOps /\ resp[v].code = 200
         /\ order.status = "accepted" /\ order.vendorId = v /\ order.acceptedAt # Null )
       => ( /\ resp'[v].op \in AcceptOps /\ resp'[v].code = 200
            /\ req'[v].pc = "idle"
            /\ order' = order )]_vars

\* C5: accept on an order accepted by a different vendor returns conflict
\* and leaves the order unchanged.
C5_AcceptedByOtherConflict ==
  [][\A v \in Vendors :
       ( /\ AcceptFind(v, "o1")
         /\ order.status = "accepted"
         /\ order.vendorId \notin {Null, v} )
       => ( /\ resp'[v] = [op |-> "accept", code |-> 409, kind |-> "conflict"]
            /\ req'[v].pc = "idle"
            /\ order' = order )]_vars

\* a vendor got the conflict while another vendor holds the accepted order
C5_Witness ==
  \E v \in Vendors :
    /\ resp[v].op = "accept" /\ resp[v].code = 409
    /\ order.status = "accepted"
    /\ order.vendorId \notin {Null, v}
    /\ req[v].pc = "idle"

PastAccepted ==
  {"in_progress", "payment_requested", "payment_confirmed", "arrival_confirmed",
   "completed", "cancelled", "rejected"}

\* C6: accept on an order whose status is past accepted returns invalid-state,
\* never success, and leaves the order unchanged.
C6_PastAcceptedInvalidState ==
  [][\A v \in Vendors :
       (AcceptFind(v, "o1") /\ order.status \in PastAccepted)
       => ( /\ resp'[v] = [op |-> "accept", code |-> 400, kind |-> "invalid_state"]
            /\ req'[v].pc = "idle"
            /\ acceptOK' = acceptOK
            /\ order' = order )]_vars

\* the vendor that started the order called accept again and got invalid-state
C6_Witness ==
  \E v \in Vendors :
    /\ resp[v].op = "accept" /\ resp[v].code = 400
    /\ order.status = "in_progress"
    /\ order.vendorId = v

Failures == {"not_found", "forbidden", "conflict", "invalid_state"}

\* C7 (as claimed): two failures of different kinds never carry the same
\* error code.
C7_DistinctFailureCodes ==
  \A v, w \in Vendors :
    (resp[v].kind \in Failures /\ resp[w].kind \in Failures
       /\ resp[v].kind # resp[w].kind)
    => resp[v].code # resp[w].code

\* the edges of the transition table ("none" -> pending is the creation)
LegalEdge(from, to) ==
  \/ from = "none" /\ to = "pending"
  \/ from = "pending" /\ to \in {"assigned", "rejected"}
  \/ from = "assigned" /\ to \in {"accepted", "cancelled"}
  \/ from = "accepted" /\ to \in {"in_progress", "cancelled"}
  \/ from = "in_progress" /\ to \in {"cancelled", "payment_requested", "completed"}
  \/ from = "payment_requested" /\ to = "payment_confirmed"
  \/ from = "payment_confirmed" /\ to = "arrival_confirmed"
  \/ from = "arrival_confirmed" /\ to = "completed"

\* C8 (as claimed): every status change follows an edge of the table.
C8_OnlyLegalEdges ==
  [][order'.status # order.status => LegalEdge(order.status, order'.status)]_vars

WithVendor ==
  {"assigned", "accepted", "in_progress", "payment_requested",
   "payment_confirmed", "arrival_confirmed", "completed"}

\* C9 (as claimed): vendorId is non-null exactly in the statuses that follow
\* an assignment (cancelled: exactly when the order had been assigned), and
\* null whenever the order is pending.
C9_VendorIffAssigned ==
  order.status # "none" =>
    /\ order.status \in WithVendor => order.vendorId # Null
    /\ order.status \in {"pending", "rejected"} => order.vendorId = Null
    /\ order.status = "cancelled" => (order.vendorId # Null <=> order.assignedAt # Null)

\* C10 (as claimed): a lifecycle timestamp that holds a value is never
\* changed by a later operation.
C10_TimestampsWrittenOnce ==
  [][/\ order.assignedAt # Null => order'.assignedAt = order.assignedAt
     /\ order.acceptedAt # Null => order'.acceptedAt = order.acceptedAt
     /\ order.completedAt # Null => order'.completedAt = order.completedAt
     /\ order.cancelledAt # Null => order'.cancelledAt = order.cancelledAt]_vars

Terminal == {"completed", "cancelled", "rejected"}

\* C11 (as claimed): an order beyond pending carries a vendor, and a vendorId
\* that is set is not changed to another vendor while the order is not in a
\* terminal state.
C11_VendorFixedOnceSet ==
  /\ [](order.status \in WithVendor => order.vendorId # Null)
  /\ [][(order.vendorId # Null /\ order.status \notin Terminal)
          => order'.vendorId = order.vendorId]_vars

\* C12 (as claimed): once the status is completed, cancelled or rejected no
\* step changes it.
C12_TerminalAbsorbing ==
  [][order.status \in Terminal => order'.status = order.status]_vars

\* the steps of vendor v's start, complete, cancel, and of its reject or
\* accept of an assigned order, that write to the order store
GuardedWrite(v) ==
  \/ \E oid \in OrderIds : StartOrder(v, oid) \/ CompleteOrder(v, oid)
  \/ CancelUpdate(v)
  \/ req[v].pc = "reject_assigned" /\ RejectUpdate(v)
  \/ AcceptAssignedUpdate(v)

\* C13 (as claimed): such a step changes the order only if the caller is the
\* vendor of the order.
C13_OnlyOwnVendorChanges ==
  [][\A v \in Vendors :
       (GuardedWrite(v) /\ order' # order) => order.vendorId = v]_vars

\* C14 (as claimed): rejected is entered only from pending without vendor,
\* cancelled only from assigned, accepted or in_progress with a vendor.
C14_RejectedCancelledDistinct ==
  [][/\ (order'.status = "rejected" /\ order.status # "rejected")
          => (order.status = "pending" /\ order.vendorId = Null)
     /\ (order'.status = "cancelled" /\ order.status # "cancelled")
          => (order.status \in {"assigned", "accepted", "in_progress"}
              /\ order.vendorId # Null)]_vars

\* C15 (as claimed): a cancelled or rejected order has cancelledAt,
\* cancellationReason and cancelledBy set, each written once; in every other
\* status cancellationReason and cancelledBy are unset.
C15_CancellationFieldsSet ==
  /\ [](order.status # "none" =>
          IF order.status \in {"cancelled", "rejected"}
            THEN /\ order.cancelledAt # Null
                 /\ order.cancellationReason
                 /\ order.cancelledBy # "none"
            ELSE /\ ~order.cancellationReason
                 /\ order.cancelledBy = "none")
  /\ [][/\ order.cancelledAt # Null => order'.cancelledAt = order.cancelledAt
        /\ order.cancelledBy # "none" => order'.cancelledBy = order.cancelledBy
        /\ order.cancellationReason => order'.cancellationReason]_vars

C17_AssignsNearest ==
  (dispatch.pc = "returned" /\ order.status = "assigned") =>
    \A w \in Vendors :
      (dispatch.presence[w].online /\ dispatch.presence[w].dist <= SearchRadius)
      => dispatch.presence[order.vendorId].dist <= dispatch.presence[w].dist

\* C18 (as claimed): a failed presence query is reported to the caller as an
\* error, not as 'no candidate', and the order stays pending without vendor.
C18_QueryFailurePropagated ==
  (dispatch.pc = "returned" /\ dispatch.queryFailed) =>
    /\ dispatch.result = "error"
    /\ order = NewOrder(Null)

\* C19: a notification that fails neither undoes the write that triggered it
\* nor fails the operation: assign returns the vendor, the accept call and
\* the vendor-update answer 200, and the notifying step leaves the order as
\* it was written.
C19_NotificationFailureAbsorbed ==
  /\ []((dispatch.pc = "returned" /\ dispatch.push \in FailedPush)
          => dispatch.result = "vendor")
  /\ [](\A v \in Vendors :
          (tail[v].pc = "responded" /\ tail[v].push \in FailedPush)
            => tail[v].code = 200)
  /\ []((hook.pc = "responded" /\ hook.trigger /\ hook.endpoint # "delivered")
          => hook.code = 200)
  /\ [][(\/ dispatch.pc = "notify" /\ dispatch'.pc = "returned"
         \/ \E v \in Vendors : tail[v].pc = "notify" /\ tail'[v].pc = "responded"
         \/ hook.pc = "webhook" /\ hook'.pc = "responded")
          => order' = order]_vars

\* the push to the assigned vendor failed at the provider and assign
\* returned the vendor; the vendor's accept was answered 200 although its
\* push found no token; the partner's update was answered 200 although the
\* webhook failed
C19_Witness ==
  /\ dispatch.pc = "returned" /\ dispatch.push = "provider_error"
  /\ dispatch.result = "vendor"
  /\ \E v \in Vendors :
       /\ tail[v].pc = "responded" /\ tail[v].push = "no_tokens"
       /\ tail[v].code = 200
       /\ acceptOK = {v}
  /\ hook.pc = "responded" /\ hook.trigger /\ hook.endpoint = "failed"
  /\ hook.code = 200 /\ ~hook.webhookSent
  /\ order.status = "completed"

\* C20 (as claimed): with a webhook URL configured, a vendor-update posts a
\* webhook exactly if it carried a status and its write changed the status
\* of the order; an update that changed nothing reports webhookSent = false.
C20_WebhookIffStatusChanged ==
  (hook.pc = "responded" /\ hook.endpoint # "not_configured") =>
    /\ hook.posted <=> (hook.carried /\ hook.changed)
    /\ ~(hook.carried /\ hook.changed) => ~hook.webhookSent

\* the statuses of the answers logged so far; 0 stands for no response
LogStatuses == [i \in 1..Len(delivery.log) |-> delivery.log[i].status]

\* C21: one call of notifyCustomerOrderUpdate makes at most 4 HTTP requests,
\* makes none after the first 2xx answer, and against an endpoint answering
\* 500, 500, 200 makes exactly 3 and returns success
C21_AtMostFourAttemptsStopAt2xx ==
  /\ Len(delivery.log) <= 4
  /\ \A i \in 1..Len(delivery.log) :
       Resolves(delivery.log[i]) =>
         /\ i = Len(delivery.log)
         /\ delivery.pc = "returned"
         /\ delivery.result.success
  /\ (Len(delivery.log) >= 3 /\ SubSeq(LogStatuses, 1, 3) = <<500, 500, 200>>) =>
       /\ Len(delivery.log) = 3
       /\ delivery.pc = "returned"
       /\ delivery.result.success
       /\ delivery.result.attempts = 3

C21_Witness ==
  /\ delivery.pc = "returned"
  /\ LogStatuses = <<500, 500, 200>>

\* an answer that is neither a 2xx nor a non-retryable 4xx
RetryableFailure(a) ==
  \/ a.kind \in {"timeout", "refused"}
  \/ a.kind = "response" /\ (a.status \in {408, 429} \/ a.status >= 500)

\* C22: a 4xx answer other than 408 and 429 ends the delivery at once with a
\* failure result (one request for an endpoint answering 400); a 408, 429,
\* 5xx, timeout or connection error is followed by another request unless
\* it answered the 4th
C22_ClientErrorAbortsOthersRetried ==
  /\ \A i \in 1..Len(delivery.log) :
       (delivery.log[i].kind = "response"
        /\ delivery.log[i].status \in {400, 404}) =>
         /\ i = Len(delivery.log)
         /\ delivery.pc = "returned"
         /\ ~delivery.result.success
  /\ (Len(delivery.log) >= 1 /\ delivery.log[1].status = 400) =>
       Len(delivery.log) = 1
  /\ \A i \in 1..Len(delivery.log) :
       RetryableFailure(delivery.log[i]) =>
         \/ i < Len(delivery.log)
         \/ i < 4 /\ delivery.pc \in {"backoff", "request"}
         \/ i = 4 /\ delivery.pc = "returned" /\ ~delivery.result.success

C22_Witness ==
  /\ delivery.pc = "returned"
  /\ Len(delivery.log) = 4
  /\ LogStatuses[1] = 408
  /\ delivery.log[2].kind = "timeout"
  /\ LogStatuses[3] = 503
  /\ LogStatuses[4] = 404

\* C23: every status change to accepted, in_progress or completed comes
\* with exactly one customer webhook and exactly one vendor push
C23_OneWebhookOnePushPerChange ==
  [][(order'.status # order.status
      /\ order'.status \in {"accepted", "in_progress", "completed"}) =>
       /\ sent'.webhooks = sent.webhooks + 1
       /\ sent'.pushes = sent.pushes + 1]_vars

\* C24: a push to a vendor without a registered token, or with the provider
\* not configured, returns a failure without any send and leaves the
\* vendor's tokens as they were
C24_SoftFailureWithoutSend ==
  (push.pc = "returned" /\ (~push.configured \/ push.before = {})) =>
    /\ push.sends = 0
    /\ ~push.result.success
    /\ push.result.error \in {"not_configured", "no_tokens"}
    /\ push.tokens = push.before

C24_Witness ==
  /\ push.pc = "returned"
  /\ push.configured
  /\ push.before = {}
  /\ push.result.error = "no_tokens"

\* C25: after a batch push the vendor's tokens are those registered before
\* it minus the tokens reported as permanently invalid (the store accepting
\* the removal)
C25_OnlyInvalidTokensPruned ==
  (/\ push.pc = "returned"
   /\ push.sends > 0
   /\ push.result.success
   /\ (push.failed # {} => push.pruned)) =>
    push.tokens = push.before \ push.invalid

\* C26: vendor-update maps accepted, rejected, enroute, completed and
\* cancelled to assigned, pending, in_progress, completed and cancelled; a
\* request with any other status is answered with a validation error and
\* changes neither the vendor nor the order
C26_StatusMappingTotal ==
  /\ [](partner.pc = "update" /\ upsert.pc = "order_write" =>
          /\ upsert.status = "accepted" => partner.newStatus = "assigned"
          /\ upsert.status = "enroute" => partner.newStatus = "in_progress"
          /\ upsert.status = "completed" => partner.newStatus = "completed"
          /\ upsert.status = "cancelled" => partner.newStatus = "cancelled"
          /\ upsert.status = "rejected" => partner.newStatus = "pending")
  /\ [](upsert.status \notin ExternalStatuses \cup {"none"} =>
          upsert.pc = "responded" /\ upsert.code = 400)
  /\ [][upsert'.status \notin ExternalStatuses \cup {"none"} =>
          vendorDb' = vendorDb /\ order' = order]_vars

C26_Witness ==
  /\ partner.pc = "update"
  /\ upsert.pc = "order_write"
  /\ upsert.status = "rejected"
  /\ partner.newStatus = "pending"
  /\ upsert.requests > 1

\* C27: after any number of vendor-update requests for one vendorId, made
\* one after the other, exactly one vendor document carries it; the first
\* request reports upserted = true and every later one upserted = false
C27_UpsertIdempotent ==
  /\ \A id \in Vendors :
       /\ vendorDb[id] <= 1
       /\ upsert.served[id] > 0 => vendorDb[id] = 1
  /\ (upsert.pc = "responded" /\ upsert.code = 200) =>
       (upsert.wasUpserted <=> upsert.served[upsert.vendorId] = 1)

C27_Witness ==
  /\ upsert.pc = "responded"
  /\ upsert.code = 200
  /\ upsert.served[upsert.vendorId] = 3
  /\ ~upsert.wasUpserted
  /\ vendorDb[upsert.vendorId] = 1

\* C28: the external customer endpoint leaves the order it creates pending
\* with no vendor, whoever is online and in range, and its call has no
\* assignment left to make; the order stays so until a vendor makes a
\* request
C28_ExternalOrderStaysPending ==
  /\ [][(dispatch.pc = "idle" /\ dispatch'.pc = "external") =>
          /\ order'.status = "pending"
          /\ order'.vendorId = Null
          /\ creator'.pc = "done"]_vars
  /\ []((dispatch.pc = "external" /\ calls = 0) =>
          /\ order.status = "pending"
          /\ order.vendorId = Null)

C28_Witness ==
  /\ dispatch.pc = "external"
  /\ \A v \in Vendors : dispatch.presence[v].online /\ dispatch.presence[v].dist = 0
  /\ order.status = "pending"
  /\ order.vendorId = Null
  /\ creator.pc = "done"
  /\ calls = 0

\* C29: the collection holds at most one document per fcmToken; a request
\* whose fcmToken is already stored is answered 201 with the id of the
\* document that held it, which then carries the request's phone; a request
\* matching no document is stored as a document of its own
C29_FcmRegistrationDeduplicates ==
  /\ \A d1, d2 \in preSignup.records : d1.fcmToken = d2.fcmToken => d1 = d2
  /\ preSignup.last.held # 0 =>
       /\ preSignup.last.code = 201
       /\ preSignup.last.id = preSignup.last.held
       /\ \E d \in preSignup.records :
            /\ d.id = preSignup.last.held
            /\ d.fcmToken = preSignup.last.fcmToken
            /\ d.phone = preSignup.last.phone
  /\ (preSignup.requests > 0 /\ preSignup.last.held = 0) =>
       preSignup.last.code = 201

\* C30: a request that read the order and then writes to it changes the
\* order only if, at the instant of the write, the order still has the status
\* (and for the assigned vendor's transitions the vendor) the transition
\* starts from
C30_WritesAreConditional ==
  [][\A v \in Vendors :
       (req[v].pc # "idle" /\ req'[v].pc = "idle" /\ order' # order) =>
         LET pc == req[v].pc
         IN /\ pc = "accept_assigned" =>
                 order.status = "assigned" /\ order.vendorId = v
            /\ pc = "accept_pending" => order.status = "pending"
            /\ pc = "reject_pending" => order.status = "pending"
            /\ pc = "reject_assigned" => order.status = "assigned"
            /\ pc = "cancel_update" => order.status \in {"accepted", "in_progress"}
            /\ pc \in {"update_status_save", "legacy_reject_save"} =>
                 order.status = "assigned" /\ order.vendorId = v]_vars

\* C31: the write of assign changes the order only if the order is still
\* pending with no vendor at the instant of the write
C31_AssignOnlyIfStillPending ==
  [][(dispatch.pc = "save" /\ dispatch'.pc = "notify" /\ order' # order) =>
       /\ order.status = "pending"
       /\ order.vendorId = Null]_vars

\* C40: once createOrder has failed, the store holds no order record, no
\* order is pending with a vendor, and no push has been sent
C40_CreateOrderAllOrNothing ==
  creator.pc = "failed" =>
    /\ order.status = "none"
    /\ ~(order.status = "pending" /\ order.vendorId # Null)
    /\ dispatch.push = "none"

\* C32: a handler comes to its notification only through the step that
\* commits the status the notification reports (or, for a save that found
\* the status already stored, after reading it from the store), and pushes
\* and webhooks are sent from that position only
C32_CommitBeforeNotify ==
  /\ [][(dispatch.pc # "notify" /\ dispatch'.pc = "notify") =>
          /\ order'.status = "assigned"
          /\ order'.vendorId = dispatch.ids[1]]_vars
  /\ [][\A v \in Vendors :
          (tail[v].pc # "notify" /\ tail'[v].pc = "notify") =>
            (order'.status = "accepted" \/ ~req[v].dirty)]_vars
  /\ [][(hook.pc # "webhook" /\ hook'.pc = "webhook" /\ hook'.trigger) =>
          order'.status = partner.newStatus]_vars
  /\ [][/\ dispatch'.push \notin {dispatch.push, "none"} => dispatch.pc = "notify"
        /\ \A v \in Vendors :
             tail'[v].push \notin {tail[v].push, "none"} => tail[v].pc = "notify"
        /\ (hook'.posted /\ ~hook.posted) => (hook.pc = "webhook" /\ hook.trigger)]_vars

C32_Witness ==
  /\ dispatch.pc = "returned"
  /\ dispatch.push = "delivered"
  /\ hook.pc = "responded"
  /\ hook.posted
  /\ order.status = "cancelled"

C35_AttemptsCountsRequests ==
  delivery.pc = "returned" => delivery.result.attempts = Len(delivery.log)

\* C36: a started delivery returns a result, whatever the endpoint answers,
\* and makes at most retries + 1 requests on the way
C36_DeliveryTerminates ==
  /\ (delivery.pc = "request") ~> (delivery.pc = "returned")
  /\ [](Len(delivery.log) <= Retries + 1)
  /\ [](delivery.pc = "returned" =>
          (delivery.result.success <=>
             (delivery.log # <<>> /\ Resolves(delivery.log[Len(delivery.log)]))))

C36_Witness ==
  /\ delivery.pc = "returned"
  /\ Len(delivery.log) = Retries + 1
  /\ ~delivery.result.success
  /\ delivery.log[1].kind = "timeout"
  /\ delivery.log[Retries + 1].kind = "refused"

\* C34: a verifyOtp succeeds only with the code of the last sendOtp for
\* that mobile, not after its expiry time, and only if no verifyOtp has
\* succeeded since that sendOtp
C34_OtpSingleUseAndExpiring ==
  [][\A m \in Mobiles :
       (otp'.calls # otp.calls /\ otp'.last.op = "verify" /\ otp'.last.success
        /\ otp'.last.mobile = m) =>
         /\ ~otp.issued[m].verified
         /\ otp'.last.code = otp.issued[m].code
         /\ now <= otp.issued[m].expiresAt
         /\ otp'.store[m] = NoEntry]_vars

C34_Witness ==
  /\ otp.issued["m1"].verified
  /\ otp.store["m1"] = NoEntry
  /\ otp.issued["m2"].code = "2222"
  /\ otp.last = [op |-> "verify", mobile |-> "m2", code |-> "2222",
                 success |-> FALSE, message |-> "expired"]

C38_AtMostOneWebhook ==
  \A r1, r2 \in Requests :
    (/\ r1 # r2
     /\ updates[r1].oid = "o1" /\ updates[r2].oid = "o1"
     /\ updates[r1].status # "none" /\ updates[r1].status = updates[r2].status)
    => ~(updates[r1].posted /\ updates[r2].posted)

\* C39: of two answered vendor-update requests for the same vendorId, unknown
\* before, exactly one reports upserted = true, and one vendor record exists
C39_ExactlyOneUpserted ==
  \A r1, r2 \in Requests :
    (/\ r1 # r2
     /\ updates[r1].pc = "responded" /\ updates[r2].pc = "responded"
     /\ updates[r1].vendorId = updates[r2].vendorId)
    => /\ updates[r1].wasUpserted # updates[r2].wasUpserted
       /\ vendorDb[updates[r1].vendorId] = 1

====
